---- MODULE Spec2Model ----
(***************************************************************************)
(* A model of the generic MongoDB repository package (go-mongo-generic).   *)
(*                                                                         *)
(* The package exists in two builds whose sources are both kept:           *)
(*   variant 1: src/impl.go lines 1-193   with src/db.go  (NewDatabase)    *)
(*   variant 2: src/impl.go lines 195-409 with src/mongodb/db.go (New)     *)
(* The variable `variant` says which build runs; it never changes.         *)
(*                                                                         *)
(* The MongoDB driver and server are the environment.  Every call the      *)
(* package makes to the driver is one step of the model; a call that goes  *)
(* to the server may fail (network, timeout) by nondeterministic choice.   *)
(*                                                                         *)
(* The specifications share the variables:                                 *)
(*   SpecIndexes     EnsureIndexes against the collection's index set      *)
(*   SpecDatabase    NewDatabase / New / NewWithMonitor                    *)
(*   SpecRepository  Find, InsertOne, InsertMany, Update*, Delete          *)
(*   SpecTransaction Database.WithTransaction                              *)
(*   SpecPagination  Pagination.Init and Pagination.SetTotalRecord         *)
(***************************************************************************)
EXTENDS Integers, Sequences, FiniteSets, TLC

\* ------------------------------------------------------------------ bounds

\* Longest list of index descriptors handed to EnsureIndexes.
MaxIndexes == 2

\* ------------------------------------------------------- names and values

\* A descriptor whose Options or Options.Name is nil carries this name.
NoName == "<unnamed>"

\* The implicit primary-key index and its key.
IdIndexName == "_id_"
IdKey == "_id"

\* Caller-assigned index names and the key specifications of the model.
UserNames == {"A", "B", "C"}
Keys == {"x", "y"}

\* Drops carry no key.
NoKey == "-"

\* The name the driver generates for a descriptor without one: the key
\* fields and directions joined by "_" ({x: 1} gives "x_1").
DefaultName(key) == key \o "_1"

\* Byte-wise order of the names of the model ('A' < 'B' < 'C' < '_' < 'x').
NameOrder == <<"A", "B", "C", "_id_", "x_1", "y_1">>
Rank(n) == CHOOSE i \in 1..Len(NameOrder) : NameOrder[i] = n

Descriptors == [name : UserNames \cup {NoName}, key : Keys]

RECURSIVE SeqsUpTo(_, _)
SeqsUpTo(S, n) ==
    IF n = 0 THEN {<<>>}
    ELSE LET shorter == SeqsUpTo(S, n - 1)
         IN  shorter \cup {Append(s, x) : s \in {t \in shorter : Len(t) = n - 1}, x \in S}

Range(s) == {s[i] : i \in 1..Len(s)}

\* All orders in which a Go map with key set S can be ranged over.
Perms(S) ==
    {s \in [1..Cardinality(S) -> S] : \A i, j \in 1..Cardinality(S) : i # j => s[i] # s[j]}

VARIABLES
    variant,      \* 1 or 2: the build
    live,         \* the collection's indexes, in listIndexes order
    pc,           \* EnsureIndexes: "idle", "list", "drop", "create", "done"
    indexes,      \* EnsureIndexes: the descriptor slice
    dropIndexes,  \* EnsureIndexes: names still to drop, in drop order
    created,      \* EnsureIndexes: descriptors already handed to CreateOne
    ops,          \* EnsureIndexes: drops and creates issued by this call
    result,       \* EnsureIndexes: what the call returned
    rerun,        \* this call repeats the desired set of a call that succeeded
    liveAtCall,   \* live when this call started
    previous      \* between calls: the desired set of the last call, if it succeeded

idxVars ==
    <<variant, live, pc, indexes, dropIndexes, created, ops, result, rerun, liveAtCall, previous>>

VARIABLES
    ctor,         \* the constructor running or last run, "none" before the first
    options,      \* the constructor's configuration (dbOptions / Config)
    dbpc,         \* "idle", "connectWrite", "connectRead", "pingWrite", "pingRead", "done"
    net,          \* the connects and pings the constructor issued
    dbResult      \* what the constructor returned

dbVars == <<ctor, options, dbpc, net, dbResult>>

VARIABLES
    docs,         \* the number of documents in the collection (all match the filter)
    rpc,          \* a repository call: "idle", "count", "query", "decode", "done"
    call,         \* the repository call running or last run, and its arguments
    pagination,   \* the caller's Pagination
    findOpt,      \* the caller's FindOptions
    sent,         \* the operations this call sent to the store
    repoResult    \* what the call returned

repoVars == <<docs, rpc, call, pagination, findOpt, sent, repoResult>>

VARIABLES
    tpc,          \* WithTransaction: "idle", "startSession", "begin", "callback", "commit", "done"
    session,      \* the sessions this call started and the EndSession calls it made
    txn,          \* the session's transaction: "none", "inProgress", "aborted", "committed"
    pending,      \* the callback's writes (documents inserted) inside the transaction
    attempts,     \* how often the driver ran the callback
    docsAtCall,   \* docs when WithTransaction was called
    txResult      \* what WithTransaction returned

txVars == <<tpc, session, txn, pending, attempts, docsAtCall, txResult>>

VARIABLES
    pgCall        \* the last call made on `pagination` directly, and the calls before it

pgVars == <<pgCall>>

vars == <<idxVars, dbVars, repoVars, txVars, pgVars>>

\* ------------------------------------------------- the index store (driver)

IdIndex == [name |-> IdIndexName, key |-> IdKey]

LiveNames(l) == {l[i].name : i \in 1..Len(l)}

\* IndexView.DropOne: the index leaves the collection.
DropOne(l, n) == SelectSeq(l, LAMBDA e : e.name # n)

\* The name an index gets on the server.
ServerName(idx) == IF idx.name = NoName THEN DefaultName(idx.key) ELSE idx.name

\* IndexView.CreateOne on the server: an identical index is a no-op, the same
\* name with another key or the same key under another name is a conflict.
CreateOutcome(l, idx) ==
    LET nm == ServerName(idx)
    IN  IF \E i \in 1..Len(l) : l[i].name = nm /\ l[i].key = idx.key THEN "exists"
        ELSE IF \E i \in 1..Len(l) : l[i].name = nm \/ l[i].key = idx.key THEN "conflict"
        ELSE "created"

CreateOne(l, idx) ==
    IF CreateOutcome(l, idx) = "created"
    THEN Append(l, [name |-> ServerName(idx), key |-> idx.key])
    ELSE l

\* ----------------------------------------------------------- the results

NoResult == [status |-> "none", phase |-> "none", name |-> NoName, wrapped |-> FALSE]
Ok == [status |-> "ok", phase |-> "none", name |-> NoName, wrapped |-> FALSE]

\* fmt.Errorf("<phase> ... %w", err): an error naming its phase (and index).
Wrapped(phase, n) == [status |-> "error", phase |-> phase, name |-> n, wrapped |-> TRUE]

\* `return err`: the driver's error as it came.
Bare == [status |-> "error", phase |-> "none", name |-> NoName, wrapped |-> FALSE]

\* log.Fatalf: the process exits; nil dereference: the goroutine panics.
Fatal == [status |-> "fatal", phase |-> "none", name |-> NoName, wrapped |-> FALSE]
Panic == [status |-> "panic", phase |-> "none", name |-> NoName, wrapped |-> FALSE]

DropOp(n) == [op |-> "drop", name |-> n, key |-> NoKey]
CreateOp(idx) == [op |-> "create", name |-> idx.name, key |-> idx.key]

\* ------------------------------------------------ EnsureIndexes, variant 1

\* ExistingNames without the check against "_id_".
ExistingNamesWithId(l) == {l[i].name : i \in 1..Len(l)}

\* Step 1: the names listed, without "_id_".
ExistingNames(l) == {l[i].name : i \in {j \in 1..Len(l) : l[j].name # IdIndexName}}

\* ExpectedNames with the collecting loop left out.
ExpectedNamesEmpty(ix) == {}

\* Step 2: the names of the descriptors that have one.
ExpectedNames(ix) == {ix[i].name : i \in {j \in 1..Len(ix) : ix[j].name # NoName}}

\* StaleNames with the membership test inverted.
StaleNamesInverted(order, expected) == SelectSeq(order, LAMBDA n : n \in expected)

\* Step 3: ranging over the map `existing` in `order`, the names not expected.
StaleNames(order, expected) == SelectSeq(order, LAMBDA n : n \notin expected)

\* ------------------------------------------------ EnsureIndexes, variant 2

Unnamed(ix) == \E i \in 1..Len(ix) : ix[i].name = NoName

\* The comparison handed to sort.Slice: *a.Options.Name <= *b.Options.Name.
NameLessEq(a, b) == Rank(a.name) <= Rank(b.name)

Swap(s, i, j) == [s EXCEPT ![i] = s[j], ![j] = s[i]]

\* sort.Slice on a short slice is an insertion sort: element j moves left
\* while less(j, j-1).
RECURSIVE Sink(_, _)
Sink(s, j) ==
    IF j > 1 /\ NameLessEq(s[j], s[j - 1]) THEN Sink(Swap(s, j, j - 1), j - 1) ELSE s

RECURSIVE SortFrom(_, _)
SortFrom(s, i) == IF i > Len(s) THEN s ELSE SortFrom(Sink(s, i), i + 1)

SortByName(ix) == SortFrom(ix, 2)

\* The comparison dereferences both names: with two or more descriptors every
\* one of them is compared, and a nil name panics.
SortPanics(ix) == Len(ix) >= 2 /\ Unnamed(ix)

\* The cursor loop dereferences every descriptor's name for every listed
\* index other than "_id_".
LoopPanics(l, ix) == ExistingNames(l) # {} /\ Unnamed(ix)

\* The cursor loop: the listed names, in cursor order, that are not "_id_"
\* and that no descriptor carries.
DropList(l, ix) ==
    LET names == [i \in 1..Len(l) |-> l[i].name]
    IN  SelectSeq(names, LAMBDA n :
            n # IdIndexName /\ \A i \in 1..Len(ix) : ix[i].name # n)

\* ------------------------------------------------------------------ int64

\* Pagination's PageCurrent, Offset and TotalPage are int64 and reach values
\* beyond the 32-bit integers of TLC: such a value is its two's complement
\* in four limbs of 16 bits, the least significant first.  (PageLimit and
\* TotalRecord stay small in the model and are plain integers.)
Limb == 65536
HalfLimb == 32768

\* The int64 of an integer n, -2^31 < n < 2^31.
I64(n) ==
    LET top == IF n < 0 THEN Limb - 1 ELSE 0
    IN  <<n % Limb, (n \div Limb) % Limb, top, top>>

Zero64 == I64(0)
MaxInt64 == <<Limb - 1, Limb - 1, Limb - 1, HalfLimb - 1>>
MinInt64 == <<0, 0, 0, HalfLimb>>

Negative(a) == a[4] >= HalfLimb

\* a < 1, signed.
LessThanOne(a) == Negative(a) \/ a = Zero64

\* a + b, wrapping as int64 addition does.
Add64(a, b) ==
    LET s1 == a[1] + b[1]
        s2 == a[2] + b[2] + (s1 \div Limb)
        s3 == a[3] + b[3] + (s2 \div Limb)
        s4 == a[4] + b[4] + (s3 \div Limb)
    IN  <<s1 % Limb, s2 % Limb, s3 % Limb, s4 % Limb>>

\* -a, wrapping.
Neg64(a) == Add64([i \in 1..4 |-> Limb - 1 - a[i]], I64(1))

\* k * a for 0 <= k < 2^15, wrapping.
MulLimbs(k, a) ==
    LET m1 == k * a[1]
        m2 == k * a[2] + (m1 \div Limb)
        m3 == k * a[3] + (m2 \div Limb)
        m4 == k * a[4] + (m3 \div Limb)
    IN  <<m1 % Limb, m2 % Limb, m3 % Limb, m4 % Limb>>

\* k * a for an integer k, -2^15 < k < 2^15, wrapping as int64
\* multiplication does.
Mul64(k, a) == IF k >= 0 THEN MulLimbs(k, a) ELSE Neg64(MulLimbs(-k, a))

\* The integer of an int64 a, -2^31 <= a < 2^31.
Num(a) == IF Negative(a) THEN (a[2] - Limb) * Limb + a[1] ELSE a[2] * Limb + a[1]

\* ------------------------------------------------------------------- Init

NoPrevious == [ok |-> FALSE, desired |-> {}]

NoCall ==
    [op |-> "none", paginated |-> FALSE, page |-> Zero64, limit |-> 0, hint |-> "none", n |-> 0]

\* The zero value of Pagination.
ZeroPagination ==
    [PageLimit |-> 0, Offset |-> Zero64, PageCurrent |-> Zero64, TotalPage |-> Zero64,
     TotalRecord |-> 0]

\* options.Find(): neither Skip nor Limit set; a nil *FindOptions has nil = TRUE.
NoFindOptions == [nil |-> FALSE, paged |-> FALSE, skip |-> Zero64, limit |-> 0]

NoRepoResult == [status |-> "none", kind |-> "none", first |-> 0, count |-> 0]

\* NewDatabase's defaults: separate connections, no monitor (the timeout
\* changes nothing the model observes).
DefaultOptions ==
    [writeURL |-> "", readURL |-> "", database |-> "", monitor |-> FALSE,
     separateReadWrite |-> TRUE]

NoDbResult == [status |-> "none", kind |-> "none", side |-> "none"]

NoSession == [started |-> 0, ended |-> 0]

NoTxResult == [status |-> "none", kind |-> "none", cause |-> "none"]

\* No call on the Pagination yet.  op, page, limit: the last call and the
\* arguments of the last Init; again: that Init repeated the one before it;
\* kept: it left PageCurrent, PageLimit and Offset as they were; regular:
\* every Init so far had limit >= 1 and every SetTotalRecord had
\* total >= 0 and found PageLimit >= 1.
NoPgCall ==
    [op |-> "none", page |-> Zero64, limit |-> 0, again |-> FALSE, kept |-> FALSE,
     regular |-> TRUE]

Init ==
    /\ variant \in {1, 2}
    /\ live = <<IdIndex>>
    /\ pc = "idle"
    /\ indexes = <<>>
    /\ dropIndexes = <<>>
    /\ created = 0
    /\ ops = <<>>
    /\ result = NoResult
    /\ rerun = FALSE
    /\ liveAtCall = <<IdIndex>>
    /\ previous = NoPrevious
    /\ ctor = "none"
    /\ options = DefaultOptions
    /\ dbpc = "idle"
    /\ net = <<>>
    /\ dbResult = NoDbResult
    /\ docs = 0
    /\ rpc = "idle"
    /\ call = NoCall
    /\ pagination = ZeroPagination
    /\ findOpt = NoFindOptions
    /\ sent = <<>>
    /\ repoResult = NoRepoResult
    /\ tpc = "idle"
    /\ session = NoSession
    /\ txn = "none"
    /\ pending = 0
    /\ attempts = 0
    /\ docsAtCall = 0
    /\ txResult = NoTxResult
    /\ pgCall = NoPgCall

\* ---------------------------------------------------- EnsureIndexes steps

\* The caller hands a descriptor slice to EnsureIndexes.
EnsureIndexes(desired) ==
    /\ pc = "idle"
    /\ pc' = "list"
    /\ indexes' = desired
    /\ rerun' = (previous.ok /\ previous.desired = Range(desired))
    /\ liveAtCall' = live
    /\ previous' = NoPrevious
    /\ UNCHANGED <<variant, live, dropIndexes, created, ops, result>>
    /\ UNCHANGED <<dbVars, repoVars, txVars, pgVars>>

\* The call is over and its locals are gone.  A process that exited
\* (log.Fatalf) or panicked does not come back.
Return ==
    /\ pc = "done"
    /\ result.status \in {"ok", "error"}
    /\ pc' = "idle"
    /\ previous' = IF result.status = "ok"
                   THEN [ok |-> TRUE, desired |-> Range(indexes)]
                   ELSE NoPrevious
    /\ indexes' = <<>>
    /\ dropIndexes' = <<>>
    /\ created' = 0
    /\ ops' = <<>>
    /\ result' = NoResult
    /\ rerun' = FALSE
    /\ liveAtCall' = live
    /\ UNCHANGED <<variant, live>>
    /\ UNCHANGED <<dbVars, repoVars, txVars, pgVars>>

\* Indexes().List fails.  (A collection holds at most 64 indexes and the
\* listing comes in one batch, so the cursor loop itself meets no error.)
ListFails ==
    /\ pc = "list"
    /\ pc' = "done"
    /\ result' = IF variant = 1 THEN Wrapped("list", NoName) ELSE Fatal
    /\ UNCHANGED <<variant, live, indexes, dropIndexes, created, ops, rerun, liveAtCall, previous>>
    /\ UNCHANGED <<dbVars, repoVars, txVars, pgVars>>

\* Variant 1: the listing is read into the map `existing`, the names of the
\* descriptors into `expected`; the drop loop ranges over the map.
ListV1 ==
    /\ pc = "list"
    /\ variant = 1
    /\ \E order \in Perms(ExistingNames(live)) :
           dropIndexes' = StaleNames(order, ExpectedNames(indexes))
    /\ pc' = "drop"
    /\ UNCHANGED <<variant, live, indexes, created, ops, result, rerun, liveAtCall, previous>>
    /\ UNCHANGED <<dbVars, repoVars, txVars, pgVars>>

\* Variant 2: the slice is sorted in place, then the cursor loop collects
\* dropIndexes.
ListV2 ==
    /\ pc = "list"
    /\ variant = 2
    /\ IF SortPanics(indexes)
       THEN /\ pc' = "done"
            /\ result' = Panic
            /\ UNCHANGED <<indexes, dropIndexes>>
       ELSE /\ indexes' = SortByName(indexes)
            /\ IF LoopPanics(live, indexes')
               THEN /\ pc' = "done"
                    /\ result' = Panic
                    /\ UNCHANGED dropIndexes
               ELSE /\ pc' = "drop"
                    /\ dropIndexes' = DropList(live, indexes')
                    /\ UNCHANGED result
    /\ UNCHANGED <<variant, live, created, ops, rerun, liveAtCall, previous>>
    /\ UNCHANGED <<dbVars, repoVars, txVars, pgVars>>

\* The error a failed DropOne / CreateOne is returned as.
DropError(n) == IF variant = 1 THEN Wrapped("drop", n) ELSE Bare
CreateError(idx) == IF variant = 1 THEN Wrapped("create", NoName) ELSE Bare

\* One DropOne of the drop loop, which the server carries out or fails.
DropNext ==
    /\ pc = "drop"
    /\ dropIndexes # <<>>
    /\ LET n == Head(dropIndexes)
       IN  /\ ops' = Append(ops, DropOp(n))
           /\ \/ /\ live' = DropOne(live, n)
                 /\ dropIndexes' = Tail(dropIndexes)
                 /\ UNCHANGED <<pc, result>>
              \/ /\ pc' = "done"
                 /\ result' = DropError(n)
                 /\ UNCHANGED <<live, dropIndexes>>
    /\ UNCHANGED <<variant, indexes, created, rerun, liveAtCall, previous>>
    /\ UNCHANGED <<dbVars, repoVars, txVars, pgVars>>

\* The drop loop is over.
DropsDone ==
    /\ pc = "drop"
    /\ dropIndexes = <<>>
    /\ pc' = "create"
    /\ UNCHANGED <<variant, live, indexes, dropIndexes, created, ops, result, rerun, liveAtCall, previous>>
    /\ UNCHANGED <<dbVars, repoVars, txVars, pgVars>>

\* One CreateOne of the create loop: the server creates the index, finds it
\* there already, reports a conflict, or the call fails on the way.
CreateNext ==
    /\ pc = "create"
    /\ created < Len(indexes)
    /\ LET idx == indexes[created + 1]
       IN  /\ ops' = Append(ops, CreateOp(idx))
           /\ \/ /\ CreateOutcome(live, idx) # "conflict"
                 /\ live' = CreateOne(live, idx)
                 /\ created' = created + 1
                 /\ UNCHANGED <<pc, result>>
              \/ /\ pc' = "done"
                 /\ result' = CreateError(idx)
                 /\ UNCHANGED <<live, created>>
    /\ UNCHANGED <<variant, indexes, dropIndexes, rerun, liveAtCall, previous>>
    /\ UNCHANGED <<dbVars, repoVars, txVars, pgVars>>

\* The create loop is over: return nil.
CreatesDone ==
    /\ pc = "create"
    /\ created = Len(indexes)
    /\ pc' = "done"
    /\ result' = Ok
    /\ UNCHANGED <<variant, live, indexes, dropIndexes, created, ops, rerun, liveAtCall, previous>>
    /\ UNCHANGED <<dbVars, repoVars, txVars, pgVars>>

NextIndexes ==
    \/ \E desired \in SeqsUpTo(Descriptors, MaxIndexes) : EnsureIndexes(desired)
    \/ Return
    \/ ListFails
    \/ ListV1
    \/ ListV2
    \/ DropNext
    \/ DropsDone
    \/ CreateNext
    \/ CreatesDone

SpecIndexes == Init /\ [][NextIndexes]_vars

\* ------------------------------------------- claims on index reconciliation

HasDrop == \E i \in 1..Len(ops) : ops[i].op = "drop"

\* A call that repeats the desired set of the call before it, which
\* succeeded, every descriptor named.
NamedRerun == rerun /\ ~Unnamed(indexes)

Succeeded == pc = "done" /\ result.status = "ok"

\* C1 as stated: the second of two calls with the same desired set, the
\* first having returned without error, issues no drop and no create.
C1_SecondRunIssuesNothing == (NamedRerun /\ Succeeded) => ops = <<>>

\* C1 as amended: the second call issues no drop; it issues one create per
\* descriptor, each for an index that is live already, and the index set of
\* the collection stays what it was when the call started.
C1_SecondRunChangesNothing ==
    NamedRerun =>
        /\ ~HasDrop
        /\ live = liveAtCall
        /\ \A i \in 1..Len(ops) : CreateOutcome(liveAtCall, indexes[i]) = "exists"
        /\ Succeeded => Len(ops) = Len(indexes)

C1_Witness ==
    /\ NamedRerun
    /\ Succeeded
    /\ Len(ops) = 2
    /\ ops[1].name # ops[2].name

\* C2: no drop is ever issued for "_id_", and "_id_" is live in every state
\* during and after a call (no descriptor of the model is named "_id_").
C2_IdIndexUntouched ==
    /\ IdIndexName \in LiveNames(live)
    /\ \A i \in 1..Len(ops) : ~(ops[i].op = "drop" /\ ops[i].name = IdIndexName)

C2_Witness ==
    /\ Succeeded
    /\ HasDrop
    /\ IdIndexName \notin ExpectedNames(indexes)
    /\ IdIndexName \in LiveNames(liveAtCall)
    /\ IdIndexName \in LiveNames(live)

\* C3 (the order of the issued operations): every drop is issued before any
\* create, and the drops are issued in lexicographic order of index name.
\* Stated for calls with named descriptors on a collection whose indexes all
\* carry caller-assigned names.
C3_DropsInNameOrder ==
    (~Unnamed(indexes) /\ LiveNames(liveAtCall) \subseteq UserNames \cup {IdIndexName}) =>
      \A i, j \in 1..Len(ops) :
        i < j =>
            /\ ~(ops[i].op = "create" /\ ops[j].op = "drop")
            /\ (ops[i].op = "drop" /\ ops[j].op = "drop")
                   => Rank(ops[i].name) < Rank(ops[j].name)

\* C4: when a call with named descriptors returns without error, the live
\* names other than "_id_" are exactly the names of the descriptors.
C4_LiveConvergesToDesired ==
    (Succeeded /\ ~Unnamed(indexes)) =>
        LiveNames(live) \ {IdIndexName} = ExpectedNames(indexes)

C4_Witness ==
    /\ Succeeded
    /\ ~Unnamed(indexes)
    /\ HasDrop
    /\ Cardinality(ExpectedNames(indexes)) = 2
    /\ ExpectedNames(indexes) \cap LiveNames(liveAtCall) # {}
    /\ ExpectedNames(indexes) \ LiveNames(liveAtCall) # {}

\* The phase in which a failed call failed: a failed drop or create is the
\* last operation issued; with none issued, the listing failed.
FailedPhase == IF ops = <<>> THEN "list" ELSE ops[Len(ops)].op

\* C5: a call that failed in listing, dropping or creating returns an error
\* that wraps the cause and names the failing phase and, for a drop or a
\* create, the index it failed on.
C5_FailureIsIdentified ==
    (pc = "done" /\ result.status \in {"error", "fatal"}) =>
        /\ result.status = "error"
        /\ result.wrapped
        /\ result.phase = FailedPhase
        /\ FailedPhase # "list" => result.name = ops[Len(ops)].name

\* C6: a descriptor without a name is rejected or skipped with a reported
\* error: a call given one does not return success, and no index under a
\* driver-generated name appears on the collection.
C6_UnnamedIsRejected ==
    Unnamed(indexes) =>
        /\ pc = "done" => result.status # "ok"
        /\ \A k \in Keys :
               DefaultName(k) \in LiveNames(live) => DefaultName(k) \in LiveNames(liveAtCall)

\* ------------------------------------------------ constructing the Database

\* Longest list of options handed to NewDatabase.
MaxOptions == 3

WriteURLs == {"", "mongodb://primary"}
ReadURLs == {"", "mongodb://secondary"}
DatabaseNames == {"", "app"}

\* The functional options, as values.
WithSingleURL(url) == [opt |-> "WithSingleURL", url |-> url, read |-> "", flag |-> FALSE]
WithMongoURLs(writeURL, readURL) ==
    [opt |-> "WithMongoURLs", url |-> writeURL, read |-> readURL, flag |-> FALSE]
WithSeparateReadWrite(enabled) ==
    [opt |-> "WithSeparateReadWrite", url |-> "", read |-> "", flag |-> enabled]
WithDatabase(db) == [opt |-> "WithDatabase", url |-> db, read |-> "", flag |-> FALSE]
WithMonitor == [opt |-> "WithMonitor", url |-> "", read |-> "", flag |-> TRUE]

Options ==
    {WithSingleURL(u) : u \in WriteURLs}
        \cup {WithMongoURLs(w, r) : w \in WriteURLs, r \in ReadURLs}
        \cup {WithSeparateReadWrite(b) : b \in BOOLEAN}
        \cup {WithDatabase(d) : d \in DatabaseNames}
        \cup {WithMonitor}

\* What one option does to dbOptions.
ApplyOption(o, f) ==
    CASE f.opt = "WithSingleURL" ->
             [o EXCEPT !.writeURL = f.url, !.readURL = f.url, !.separateReadWrite = FALSE]
      [] f.opt = "WithMongoURLs" ->
             [o EXCEPT !.writeURL = f.url,
                       !.readURL = IF f.read = "" THEN f.url ELSE f.read,
                       !.separateReadWrite = TRUE]
      [] f.opt = "WithSeparateReadWrite" -> [o EXCEPT !.separateReadWrite = f.flag]
      [] f.opt = "WithDatabase" -> [o EXCEPT !.database = f.url]
      [] f.opt = "WithMonitor" -> [o EXCEPT !.monitor = f.flag]

RECURSIVE ApplyOptions(_, _)
ApplyOptions(o, fs) ==
    IF fs = <<>> THEN o ELSE ApplyOptions(ApplyOption(o, Head(fs)), Tail(fs))

\* The read URL after NewDatabase's fallback to the write URL.
ReadTarget(o) ==
    IF ~o.separateReadWrite THEN o.writeURL
    ELSE IF o.readURL = "" THEN o.writeURL
    ELSE o.readURL

\* Config, the argument of New and NewWithMonitor.
Configs == [WriteURL : WriteURLs, ReadURL : ReadURLs, Database : DatabaseNames]

DbOk == [status |-> "ok", kind |-> "none", side |-> "none"]
ConfigError == [status |-> "error", kind |-> "config", side |-> "none"]
ConnectError(side) == [status |-> "error", kind |-> "connect", side |-> side]
PingError(side) == [status |-> "error", kind |-> "ping", side |-> side]

ConnectCall(side, url) == [op |-> "connect", side |-> side, url |-> url]
PingCall(side, url) == [op |-> "ping", side |-> side, url |-> url]

\* Variant 1.  NewDatabase applies its options and validates the
\* configuration; a valid one goes on to connect.
NewDatabase(opts) ==
    /\ variant = 1
    /\ dbpc = "idle"
    /\ ctor' = "NewDatabase"
    /\ net' = <<>>
    /\ LET o == ApplyOptions(DefaultOptions, opts)
       IN  IF o.writeURL = ""
           THEN /\ options' = o
                /\ dbpc' = "done"
                /\ dbResult' = ConfigError
           ELSE /\ options' = [o EXCEPT !.readURL = ReadTarget(o)]
                /\ IF o.database = ""
                   THEN /\ dbpc' = "done"
                        /\ dbResult' = ConfigError
                   ELSE /\ dbpc' = "connectWrite"
                        /\ dbResult' = NoDbResult
    /\ UNCHANGED <<idxVars, repoVars, txVars, pgVars>>

\* New and NewWithMonitor take the Config as it is and go on to connect.
StartWith(name, config) ==
    /\ ctor' = name
    /\ net' = <<>>
    /\ options' = [writeURL |-> config.WriteURL, readURL |-> config.ReadURL,
                   database |-> config.Database, monitor |-> (name = "NewWithMonitor"),
                   separateReadWrite |-> TRUE]
    /\ dbpc' = "connectWrite"
    /\ dbResult' = NoDbResult
    /\ UNCHANGED <<idxVars, repoVars, txVars, pgVars>>

\* Variant 2.
New(config) ==
    /\ variant = 2
    /\ dbpc = "idle"
    /\ StartWith("New", config)

NewWithMonitor(config) ==
    /\ variant = 2
    /\ dbpc = "idle"
    /\ StartWith("NewWithMonitor", config)

\* mongo.Connect: fails on a URI it cannot parse (the empty one), and may
\* fail on any other.
Connect(side, url, nextpc) ==
    /\ net' = Append(net, ConnectCall(side, url))
    /\ \/ /\ url # ""
          /\ dbpc' = nextpc
          /\ UNCHANGED dbResult
       \/ /\ dbpc' = "done"
          /\ dbResult' = ConnectError(side)
    /\ UNCHANGED <<ctor, options>>
    /\ UNCHANGED <<idxVars, repoVars, txVars, pgVars>>

ConnectWrite ==
    /\ dbpc = "connectWrite"
    /\ Connect("write", options.writeURL, "connectRead")

ConnectRead ==
    /\ dbpc = "connectRead"
    /\ Connect("read", options.readURL, "pingWrite")

PingWrite ==
    /\ dbpc = "pingWrite"
    /\ net' = Append(net, PingCall("write", options.writeURL))
    /\ \/ /\ dbpc' = "pingRead"
          /\ UNCHANGED dbResult
       \/ /\ dbpc' = "done"
          /\ dbResult' = PingError("write")
    /\ UNCHANGED <<ctor, options>>
    /\ UNCHANGED <<idxVars, repoVars, txVars, pgVars>>

\* What the constructor returns once both pings answered: New and
\* NewWithMonitor look at the database name here.
AfterPings ==
    IF ctor # "NewDatabase" /\ options.database = "" THEN ConfigError ELSE DbOk

PingRead ==
    /\ dbpc = "pingRead"
    /\ net' = Append(net, PingCall("read", options.readURL))
    /\ dbpc' = "done"
    /\ \/ dbResult' = AfterPings
       \/ dbResult' = PingError("read")
    /\ UNCHANGED <<ctor, options>>
    /\ UNCHANGED <<idxVars, repoVars, txVars, pgVars>>

\* The constructor returned; the next one may run.
Constructed ==
    /\ dbpc = "done"
    /\ dbpc' = "idle"
    /\ ctor' = "none"
    /\ options' = DefaultOptions
    /\ net' = <<>>
    /\ dbResult' = NoDbResult
    /\ UNCHANGED <<idxVars, repoVars, txVars, pgVars>>

NextDatabase ==
    \/ \E opts \in SeqsUpTo(Options, MaxOptions) : NewDatabase(opts)
    \/ \E config \in Configs : New(config)
    \/ \E config \in Configs : NewWithMonitor(config)
    \/ ConnectWrite
    \/ ConnectRead
    \/ PingWrite
    \/ PingRead
    \/ Constructed

SpecDatabase == Init /\ [][NextDatabase]_vars

\* ------------------------------------------------- claims on construction

\* C7: a configuration without a write URL or without a database name fails
\* with a configuration error, and no connect and no ping is issued for it.
C7_ConfigurationCheckedFirst ==
    (ctor # "none" /\ (options.writeURL = "" \/ options.database = "")) =>
        /\ net = <<>>
        /\ dbpc = "done" => dbResult = ConfigError

\* ------------------------------------------------------------- Pagination

\* The most Init lets PageLimit be.
MaxPageLimit == 100

\* Pagination.Init: page at least 1, limit at most MaxPageLimit, the offset
\* derived from them.
PaginationInit(p, page, limit) ==
    LET pg == IF LessThanOne(page) THEN I64(1) ELSE page
        lm == IF limit > MaxPageLimit THEN MaxPageLimit ELSE limit
    IN  [p EXCEPT !.PageCurrent = pg, !.PageLimit = lm,
                  !.Offset = Mul64(lm, Add64(pg, I64(-1)))]

\* math.Ceil(float64(a) / float64(b)) for b # 0 (exact on the model's values).
CeilOfQuotient(a, b) == IF b > 0 THEN -((-a) \div b) ELSE -(a \div (-b))

\* int64 of +Inf or NaN, which a division by PageLimit = 0 gives, is
\* implementation-dependent: the smallest int64 (amd64), the largest or 0 (arm64).
ImplementationDependent == <<MinInt64, MaxInt64, Zero64>>

\* The values SetTotalRecord may leave in TotalPage, listed.
TotalPages(total, limit) ==
    IF limit = 0 THEN ImplementationDependent ELSE <<I64(CeilOfQuotient(total, limit))>>

\* Pagination.SetTotalRecord, TotalPage being the entry tp of TotalPages.
SetTotalRecord(p, total, tp) == [p EXCEPT !.TotalRecord = total, !.TotalPage = tp]

\* ------------------------------------------------------ the repository calls

\* Most documents the collection holds, most documents of one InsertMany,
\* highest page asked for.
MaxDocs == 25
MaxBatch == 2
MaxPage == 3

Pages == {I64(n) : n \in 0..MaxPage}
PageLimits == {-1, 0, 1, 10, 50, 100, 101}

\* How an update is called: without options (nil), with options whose Hint
\* is unset, with options that carry a Hint.
Hints == {"none", "nohint", "hint"}

RepoOk == [status |-> "ok", kind |-> "none", first |-> 0, count |-> 0]
RepoError(kind) == [status |-> "error", kind |-> kind, first |-> 0, count |-> 0]
RepoPanic == [status |-> "panic", kind |-> "nil", first |-> 0, count |-> 0]

Operation(conn, op, skip, limit) == [conn |-> conn, op |-> op, skip |-> skip, limit |-> limit]

\* WithSkipLimit with Offset and PageLimit taken for each other.
WithLimitSkip(opt, p) ==
    [opt EXCEPT !.paged = TRUE, !.skip = I64(p.PageLimit), !.limit = Num(p.Offset)]

\* opt.SetSkip(pagination.Offset); opt.SetLimit(pagination.PageLimit).
WithSkipLimit(opt, p) == [opt EXCEPT !.paged = TRUE, !.skip = p.Offset, !.limit = p.PageLimit]

\* The server's answer to find: `skip` documents passed over, then at most
\* |limit| documents (limit 0: all of them).
Matched(n, opt) ==
    LET skip == Num(opt.skip)
        rest == IF n > skip THEN n - skip ELSE 0
        most == IF opt.limit < 0 THEN -opt.limit ELSE opt.limit
    IN  [first |-> skip + 1,
         count |-> IF most = 0 \/ rest < most THEN rest ELSE most]

StartCall(c) ==
    /\ rpc = "idle"
    /\ call' = c
    /\ UNCHANGED <<sent, repoResult>>

\* Find is called, with or without a Pagination, with or without FindOptions.
Find(paginated, page, limit, optNil) ==
    /\ StartCall([NoCall EXCEPT !.op = "Find", !.paginated = paginated,
                                !.page = page, !.limit = limit])
    /\ pagination' = [ZeroPagination EXCEPT !.PageCurrent = page, !.PageLimit = limit]
    /\ findOpt' = [NoFindOptions EXCEPT !.nil = optNil]
    /\ rpc' = IF paginated THEN "count" ELSE "query"
    /\ UNCHANGED docs
    /\ UNCHANGED <<idxVars, dbVars, txVars, pgVars>>

\* Find, paginated: CountDocuments on the read collection; on its answer
\* the pagination is set up and skip and limit go into the options, which
\* panics on nil options.
FindCount ==
    /\ rpc = "count"
    /\ sent' = Append(sent, Operation("read", "count", Zero64, 0))
    /\ \/ /\ rpc' = "done"
          /\ repoResult' = RepoError("count")
          /\ UNCHANGED <<pagination, findOpt>>
       \/ LET p == PaginationInit(pagination, pagination.PageCurrent, pagination.PageLimit)
              tps == TotalPages(docs, p.PageLimit)
          IN  /\ \E i \in 1..Len(tps) : pagination' = SetTotalRecord(p, docs, tps[i])
              /\ IF findOpt.nil
                 THEN /\ rpc' = "done"
                      /\ repoResult' = RepoPanic
                      /\ UNCHANGED findOpt
                 ELSE /\ rpc' = "query"
                      /\ findOpt' = WithSkipLimit(findOpt, pagination')
                      /\ UNCHANGED repoResult
    /\ UNCHANGED <<docs, call>>
    /\ UNCHANGED <<idxVars, dbVars, txVars, pgVars>>

\* Find on the read collection; the server refuses a negative skip.
FindQuery ==
    /\ rpc = "query"
    /\ sent' = Append(sent, Operation("read", "find", findOpt.skip, findOpt.limit))
    /\ \/ /\ ~Negative(findOpt.skip)
          /\ rpc' = "decode"
          /\ UNCHANGED repoResult
       \/ /\ rpc' = "done"
          /\ repoResult' = RepoError("query")
    /\ UNCHANGED <<docs, call, pagination, findOpt>>
    /\ UNCHANGED <<idxVars, dbVars, txVars, pgVars>>

\* cur.All decodes the matches, or fails.
FindDecode ==
    /\ rpc = "decode"
    /\ rpc' = "done"
    /\ \/ repoResult' = [RepoOk EXCEPT !.first = Matched(docs, findOpt).first,
                                       !.count = Matched(docs, findOpt).count]
       \/ repoResult' = RepoError("decode")
    /\ UNCHANGED <<docs, call, pagination, findOpt, sent>>
    /\ UNCHANGED <<idxVars, dbVars, txVars, pgVars>>

\* A write of one driver call: sent on the write collection, it succeeds
\* with `after` documents in the collection, or fails.
Write(op, after) ==
    /\ rpc' = "done"
    /\ sent' = <<Operation("write", op, Zero64, 0)>>
    /\ \/ /\ docs' = after
          /\ repoResult' = RepoOk
       \/ /\ repoResult' = RepoError("write")
          /\ UNCHANGED docs

\* A call refused before anything is sent.
Refuse(res) ==
    /\ rpc' = "done"
    /\ sent' = <<>>
    /\ repoResult' = res
    /\ UNCHANGED docs

InsertOne ==
    /\ rpc = "idle"
    /\ docs < MaxDocs
    /\ call' = [NoCall EXCEPT !.op = "InsertOne", !.n = 1]
    /\ Write("insertOne", docs + 1)
    /\ UNCHANGED <<pagination, findOpt>>
    /\ UNCHANGED <<idxVars, dbVars, txVars, pgVars>>

\* InsertMany hands the slice, whatever its length, to the driver, whose
\* InsertMany returns ErrEmptySlice for an empty one without sending it.
InsertMany(n) ==
    /\ rpc = "idle"
    /\ docs + n <= MaxDocs
    /\ call' = [NoCall EXCEPT !.op = "InsertMany", !.n = n]
    /\ IF n = 0 THEN Refuse(RepoError("ErrEmptySlice")) ELSE Write("insertMany", docs + n)
    /\ UNCHANGED <<pagination, findOpt>>
    /\ UNCHANGED <<idxVars, dbVars, txVars, pgVars>>

\* Variant 1 passes the update and the options on; variant 2 reads
\* options.Hint first (a panic on nil options) and refuses an unset Hint.
Update(op, hint) ==
    IF variant = 1 THEN Write(op, docs)
    ELSE IF hint = "none" THEN Refuse(RepoPanic)
    ELSE IF hint = "nohint" THEN Refuse(RepoError("config"))
    ELSE Write(op, docs)

UpdateOne(hint) ==
    /\ rpc = "idle"
    /\ call' = [NoCall EXCEPT !.op = "UpdateOne", !.hint = hint]
    /\ Update("updateOne", hint)
    /\ UNCHANGED <<pagination, findOpt>>
    /\ UNCHANGED <<idxVars, dbVars, txVars, pgVars>>

\* Variant 1 only: the update wrapped in $set and handed to UpdateOne.
UpdateSetOne(hint) ==
    /\ rpc = "idle"
    /\ variant = 1
    /\ call' = [NoCall EXCEPT !.op = "UpdateSetOne", !.hint = hint]
    /\ Update("updateOne", hint)
    /\ UNCHANGED <<pagination, findOpt>>
    /\ UNCHANGED <<idxVars, dbVars, txVars, pgVars>>

UpdateMany(hint) ==
    /\ rpc = "idle"
    /\ call' = [NoCall EXCEPT !.op = "UpdateMany", !.hint = hint]
    /\ Update("updateMany", hint)
    /\ UNCHANGED <<pagination, findOpt>>
    /\ UNCHANGED <<idxVars, dbVars, txVars, pgVars>>

\* Delete is DeleteMany: every matching document goes.
Delete ==
    /\ rpc = "idle"
    /\ call' = [NoCall EXCEPT !.op = "Delete"]
    /\ Write("deleteMany", 0)
    /\ UNCHANGED <<pagination, findOpt>>
    /\ UNCHANGED <<idxVars, dbVars, txVars, pgVars>>

\* The call returned to its caller and its arguments are gone; after a
\* panic there is no next call.
Returned ==
    /\ rpc = "done"
    /\ repoResult.status # "panic"
    /\ rpc' = "idle"
    /\ call' = NoCall
    /\ pagination' = ZeroPagination
    /\ findOpt' = NoFindOptions
    /\ sent' = <<>>
    /\ repoResult' = NoRepoResult
    /\ UNCHANGED docs
    /\ UNCHANGED <<idxVars, dbVars, txVars, pgVars>>

NextRepository ==
    \/ \E paginated \in BOOLEAN, page \in Pages, limit \in PageLimits, optNil \in BOOLEAN :
           Find(paginated, page, limit, optNil)
    \/ FindCount
    \/ FindQuery
    \/ FindDecode
    \/ InsertOne
    \/ \E n \in 0..MaxBatch : InsertMany(n)
    \/ \E hint \in Hints : UpdateOne(hint)
    \/ \E hint \in Hints : UpdateSetOne(hint)
    \/ \E hint \in Hints : UpdateMany(hint)
    \/ Delete
    \/ Returned

SpecRepository == Init /\ [][NextRepository]_vars

\* --------------------------------------------- claims on the repository calls

PaginatedFind == call.op = "Find" /\ call.paginated /\ rpc # "idle"

\* C8: a paginated Find sends the count first, then the query, both on the
\* read collection and nothing else; the query goes out only after the count
\* answered and the pagination was set up from it, with skip = Offset and
\* limit = PageLimit; a failed count ends the call with the error and no
\* query.  With page 2, limit 10 and 25 documents the query carries skip 10,
\* limit 10 and the pagination holds offset 10, 25 records, 3 pages.
C8_PaginatedFindOrder ==
    PaginatedFind =>
        /\ Len(sent) <= 2
        /\ \A i \in 1..Len(sent) : sent[i].conn = "read"
        /\ Len(sent) >= 1 => sent[1].op = "count"
        /\ repoResult = RepoError("count") => Len(sent) = 1
        /\ Len(sent) = 2 =>
               /\ sent[2].op = "find"
               /\ sent[2].skip = pagination.Offset
               /\ sent[2].limit = pagination.PageLimit
               /\ pagination.TotalRecord = docs
               /\ pagination.PageCurrent =
                      (IF Num(call.page) < 1 THEN I64(1) ELSE call.page)
               /\ pagination.PageLimit =
                      (IF call.limit > MaxPageLimit THEN MaxPageLimit ELSE call.limit)
               /\ Num(pagination.Offset) =
                      pagination.PageLimit * (Num(pagination.PageCurrent) - 1)
               /\ (call.page = I64(2) /\ call.limit = 10 /\ docs = 25) =>
                      /\ sent[2].skip = I64(10)
                      /\ sent[2].limit = 10
                      /\ pagination.Offset = I64(10)
                      /\ pagination.TotalRecord = 25
                      /\ pagination.TotalPage = I64(3)

C8_Witness ==
    /\ PaginatedFind
    /\ call.page = I64(2)
    /\ call.limit = 10
    /\ docs = 25
    /\ rpc = "done"
    /\ repoResult.status = "ok"
    /\ repoResult.first = 11
    /\ repoResult.count = 10
    /\ Len(sent) = 2

\* C9: InsertMany of an empty list returns no error and sends nothing.
C9_EmptyInsertManySucceeds ==
    (call.op = "InsertMany" /\ call.n = 0 /\ rpc = "done") =>
        /\ repoResult.status = "ok"
        /\ sent = <<>>

\* C10: where the hint is required (variant 2), UpdateOne and UpdateMany
\* called without options or with options whose Hint is unset return a
\* configuration error and send no write.
C10_MissingHintIsRefused ==
    (variant = 2 /\ call.op \in {"UpdateOne", "UpdateMany"}
        /\ call.hint \in {"none", "nohint"} /\ rpc = "done") =>
            /\ repoResult = RepoError("config")
            /\ sent = <<>>

\* ---------------------------------------------------------- WithTransaction

\* Most documents one run of the callback inserts, and most runs of the
\* callback the driver makes before its retry time is over.
MaxWrites == 2
MaxAttempts == 2

TxOk == [status |-> "ok", kind |-> "none", cause |-> "none"]

\* fmt.Errorf("start session failed: %w", err).
StartSessionFailed ==
    [status |-> "error", kind |-> "start session failed", cause |-> "startSession"]

\* fmt.Errorf("transaction failed: %w", err), `cause` being where err arose.
TransactionFailed(cause) ==
    [status |-> "error", kind |-> "transaction failed", cause |-> cause]

\* A panic of the callback, unwinding through WithTransaction.
TxPanic == [status |-> "panic", kind |-> "none", cause |-> "callback"]

\* EndSession with the deferred call left out.
EndSessionForgotten(s) == s

\* defer session.EndSession(ctx): the session is released.
EndSession(s) == [s EXCEPT !.ended = @ + 1]

\* EndSession aborts a transaction that is still in progress.
AfterEndSession(t) == IF t = "inProgress" THEN "aborted" ELSE t

\* The driver may run the callback once more while its retry time lasts.
MayRetry == attempts < MaxAttempts

\* WithTransaction is called on a constructed Database.
WithTransaction ==
    /\ tpc = "idle"
    /\ tpc' = "startSession"
    /\ docsAtCall' = docs
    /\ UNCHANGED <<session, txn, pending, attempts, txResult>>
    /\ UNCHANGED <<idxVars, dbVars, repoVars, pgVars>>

\* Client().StartSession(): a session, and EndSession deferred; or an error,
\* returned before anything is deferred.
StartSession ==
    /\ tpc = "startSession"
    /\ \/ /\ session' = [session EXCEPT !.started = @ + 1]
          /\ tpc' = "begin"
          /\ UNCHANGED txResult
       \/ /\ tpc' = "done"
          /\ txResult' = StartSessionFailed
          /\ UNCHANGED session
    /\ UNCHANGED <<txn, pending, attempts, docsAtCall>>
    /\ UNCHANGED <<idxVars, dbVars, repoVars, pgVars>>

\* session.WithTransaction, top of its loop: StartTransaction, then the
\* callback runs.
StartTransaction ==
    /\ tpc = "begin"
    /\ tpc' = "callback"
    /\ txn' = "inProgress"
    /\ pending' = 0
    /\ attempts' = attempts + 1
    /\ UNCHANGED <<session, docsAtCall, txResult>>
    /\ UNCHANGED <<idxVars, dbVars, repoVars, pgVars>>

\* The callback inserts a document through the SessionContext: the write
\* belongs to the transaction.  (The callback does its writes through the
\* SessionContext and leaves commit and abort to the driver.)
CallbackWrite ==
    /\ tpc = "callback"
    /\ pending < MaxWrites
    /\ docs + pending < MaxDocs
    /\ pending' = pending + 1
    /\ UNCHANGED <<tpc, session, txn, attempts, docsAtCall, txResult>>
    /\ UNCHANGED <<idxVars, dbVars, repoVars, pgVars>>

\* The callback returns nil: the driver goes on to commit.
CallbackReturns ==
    /\ tpc = "callback"
    /\ tpc' = "commit"
    /\ UNCHANGED <<session, txn, pending, attempts, docsAtCall, txResult>>
    /\ UNCHANGED <<idxVars, dbVars, repoVars, pgVars>>

\* WithTransaction returns `res`; the deferred EndSession runs first.
TxReturn(res, t) ==
    /\ tpc' = "done"
    /\ txResult' = res
    /\ session' = EndSession(session)
    /\ txn' = AfterEndSession(t)

\* The transaction was aborted, by the driver or by the server: the driver
\* starts over if the error is transient and time is left, and returns the
\* error otherwise.
AbortedWith(cause, transient) ==
    IF transient /\ MayRetry
    THEN /\ tpc' = "begin"
         /\ txn' = "aborted"
         /\ UNCHANGED <<session, txResult>>
    ELSE TxReturn(TransactionFailed(cause), "aborted")

\* The callback returns an error: the driver aborts the transaction.
CallbackFails(transient) ==
    /\ tpc = "callback"
    /\ AbortedWith("callback", transient)
    /\ UNCHANGED <<pending, attempts, docsAtCall>>
    /\ UNCHANGED <<idxVars, dbVars, repoVars, pgVars>>

\* The callback panics: the deferred EndSession runs while the panic
\* unwinds, and aborts the transaction in progress.
CallbackPanics ==
    /\ tpc = "callback"
    /\ TxReturn(TxPanic, txn)
    /\ UNCHANGED <<pending, attempts, docsAtCall>>
    /\ UNCHANGED <<idxVars, dbVars, repoVars, pgVars>>

\* CommitTransaction succeeds: the callback's writes are in the collection.
Commit ==
    /\ tpc = "commit"
    /\ docs' = docs + pending
    /\ TxReturn(TxOk, "committed")
    /\ UNCHANGED <<pending, attempts, docsAtCall>>
    /\ UNCHANGED <<rpc, call, pagination, findOpt, sent, repoResult>>
    /\ UNCHANGED <<idxVars, dbVars, pgVars>>

\* CommitTransaction fails with a transient error: the server aborted the
\* transaction.
CommitAborted ==
    /\ tpc = "commit"
    /\ AbortedWith("commit", TRUE)
    /\ UNCHANGED <<pending, attempts, docsAtCall>>
    /\ UNCHANGED <<idxVars, dbVars, repoVars, pgVars>>

\* CommitTransaction fails for good, its outcome on the server unknown: the
\* writes are in the collection (applied) or they are not.
CommitFails(applied) ==
    /\ tpc = "commit"
    /\ docs' = IF applied THEN docs + pending ELSE docs
    /\ TxReturn(TransactionFailed("commit"), IF applied THEN "committed" ELSE "aborted")
    /\ UNCHANGED <<pending, attempts, docsAtCall>>
    /\ UNCHANGED <<rpc, call, pagination, findOpt, sent, repoResult>>
    /\ UNCHANGED <<idxVars, dbVars, pgVars>>

\* WithTransaction returned to its caller; after a panic there is no next call.
TxReturned ==
    /\ tpc = "done"
    /\ txResult.status # "panic"
    /\ tpc' = "idle"
    /\ session' = NoSession
    /\ txn' = "none"
    /\ pending' = 0
    /\ attempts' = 0
    /\ docsAtCall' = 0
    /\ txResult' = NoTxResult
    /\ UNCHANGED <<idxVars, dbVars, repoVars, pgVars>>

NextTransaction ==
    \/ WithTransaction
    \/ StartSession
    \/ StartTransaction
    \/ CallbackWrite
    \/ CallbackReturns
    \/ \E transient \in BOOLEAN : CallbackFails(transient)
    \/ CallbackPanics
    \/ Commit
    \/ CommitAborted
    \/ \E applied \in BOOLEAN : CommitFails(applied)
    \/ TxReturned

SpecTransaction == Init /\ [][NextTransaction]_vars

\* ------------------------------------------------- claims on WithTransaction

\* C11: a call that started a session calls EndSession exactly once, at its
\* return and not before, whether the callback succeeded, failed or panicked
\* or the commit failed; a call whose callback failed leaves the collection
\* as it was when the call started; a failed StartSession is returned as
\* "start session failed", every later failure as "transaction failed", and
\* only the former has neither started nor released a session.
C11_SessionReleasedOnEveryExit ==
    /\ session.started <= 1
    /\ tpc # "done" => session.ended = 0
    /\ tpc = "done" =>
           /\ session.ended = session.started
           /\ (txResult = StartSessionFailed) <=> (session.started = 0)
           /\ session.started = 1 =>
                  \/ txResult = TxOk
                  \/ txResult = TxPanic
                  \/ txResult \in {TransactionFailed("callback"), TransactionFailed("commit")}
           /\ txResult.cause = "callback" =>
                  /\ docs = docsAtCall
                  /\ txn = "aborted"
           /\ txResult = TxOk =>
                  /\ docs = docsAtCall + pending
                  /\ txn = "committed"

C11_Witness ==
    /\ tpc = "done"
    /\ txResult = TransactionFailed("callback")
    /\ attempts = 2
    /\ pending = 2
    /\ docsAtCall > 0
    /\ docs = docsAtCall
    /\ session = [started |-> 1, ended |-> 1]

\* ------------------------------------------- Pagination, called on its own

\* The pages a caller passes to Init: around 1, and the ends of int64.
PageValues == {I64(n) : n \in -1..MaxPage} \cup {MinInt64, MaxInt64}

\* The totals a caller passes to SetTotalRecord.
TotalRecords == {0, 1, MaxDocs, 101}

\* p.Init(page, limit) on the caller's Pagination.
CallInit(page, limit) ==
    /\ pagination' = PaginationInit(pagination, page, limit)
    /\ pgCall' = [op |-> "Init", page |-> page, limit |-> limit,
                  again |-> (pgCall.op # "none" /\ pgCall.page = page /\ pgCall.limit = limit),
                  kept |-> /\ pagination'.PageCurrent = pagination.PageCurrent
                           /\ pagination'.PageLimit = pagination.PageLimit
                           /\ pagination'.Offset = pagination.Offset,
                  regular |-> (pgCall.regular /\ limit >= 1)]
    /\ UNCHANGED <<docs, rpc, call, findOpt, sent, repoResult>>
    /\ UNCHANGED <<idxVars, dbVars, txVars>>

\* p.SetTotalRecord(total) on the caller's Pagination.
CallSetTotalRecord(total) ==
    /\ LET tps == TotalPages(total, pagination.PageLimit)
       IN  \E i \in 1..Len(tps) : pagination' = SetTotalRecord(pagination, total, tps[i])
    /\ pgCall' = [pgCall EXCEPT !.op = "SetTotalRecord",
                                !.regular = (@ /\ total >= 0 /\ pagination.PageLimit >= 1)]
    /\ UNCHANGED <<docs, rpc, call, findOpt, sent, repoResult>>
    /\ UNCHANGED <<idxVars, dbVars, txVars>>

NextPagination ==
    \/ \E page \in PageValues, limit \in PageLimits : CallInit(page, limit)
    \/ \E total \in TotalRecords : CallSetTotalRecord(total)

SpecPagination == Init /\ [][NextPagination]_vars

\* ---------------------------------------------------- claims on Pagination

\* a <= b for int64 values that are not negative.
LessEq64(a, b) ==
    \/ a = b
    \/ \E i \in 1..4 : a[i] < b[i] /\ \A j \in (i + 1)..4 : a[j] = b[j]

\* Quotient and remainder of a >= 0 by k, 1 <= k < 2^15, by long division.
DivLimbs(a, k) ==
    LET c4 == a[4]
        c3 == (c4 % k) * Limb + a[3]
        c2 == (c3 % k) * Limb + a[2]
        c1 == (c2 % k) * Limb + a[1]
    IN  [q |-> <<c1 \div k, c2 \div k, c3 \div k, c4 \div k>>, r |-> c1 % k]

\* off is the product k * a of the integers, for k >= 1 and a >= 0.
IsProduct(off, k, a) == ~Negative(off) /\ DivLimbs(off, k) = [q |-> a, r |-> 0]

\* Offset is PageLimit * (PageCurrent - 1), as integers.
OffsetDerived(p) == IsProduct(p.Offset, p.PageLimit, Add64(p.PageCurrent, I64(-1)))

\* PageLimit * (PageCurrent - 1) is an int64.
OffsetFits(p) ==
    LessEq64(Add64(p.PageCurrent, I64(-1)), DivLimbs(MaxInt64, p.PageLimit).q)

\* C12: after Init(page, limit) with limit >= 1, PageCurrent is page or, for
\* a page below 1, 1; PageLimit is limit or, for a limit above 100, 100;
\* Offset is PageLimit * (PageCurrent - 1); and an Init that repeats the
\* arguments of the Init before it leaves the three as they were.
C12_InitClampsAndDerives ==
    (pgCall.op = "Init" /\ pgCall.limit >= 1) =>
        /\ pagination.PageCurrent = (IF Negative(pgCall.page) \/ pgCall.page = Zero64
                                     THEN I64(1) ELSE pgCall.page)
        /\ pagination.PageLimit = (IF pgCall.limit > 100 THEN 100 ELSE pgCall.limit)
        /\ OffsetDerived(pagination)
        /\ pgCall.again => pgCall.kept

\* C13: after any calls of Init with limit >= 1 and SetTotalRecord with
\* total >= 0 (Init first), TotalPage is the ceiling of TotalRecord /
\* PageLimit for the PageLimit of that state, and Offset is PageLimit *
\* (PageCurrent - 1) (stated where that product is an int64).
C13_DerivedFieldsNeverStale ==
    (pgCall.op # "none" /\ pgCall.regular) =>
        /\ pagination.TotalPage = I64(CeilOfQuotient(pagination.TotalRecord, pagination.PageLimit))
        /\ OffsetFits(pagination) => OffsetDerived(pagination)

====
